---- MODULE Spec2Model ----
(***************************************************************************)
(* mcp-canvas: the resilient HTTP client (src/canvas.ts) and the server    *)
(* that dispatches tool calls to it (src/index.ts, src/tools).             *)
(*                                                                         *)
(* Spec follows one call of CanvasClient.request over its attempt loop:    *)
(* the request descriptor it was given, the loop counter, what it is       *)
(* awaiting (the fetch, a backoff wait), the requests issued and waits     *)
(* completed so far, the response of the current iteration and the outcome *)
(* handed to the caller. RepeatSpec issues one descriptor twice, ProbeSpec *)
(* runs testConnection over the same loop. ServerSpec follows the process  *)
(* from its start through the tool calls of a caller that waits for each   *)
(* answer, PipelinedSpec the running server with a caller that does not.   *)
(***************************************************************************)
EXTENDS Integers, Sequences, FiniteSets, Bags, TLC

\* Largest explicit maxRetries option drawn for a call.
MaxRetriesArg == 3

\* canvas.ts:29  maxRetries when the option is absent.
DefaultMaxRetries == 5

(***************************************************************************)
(* JavaScript values                                                       *)
(***************************************************************************)

\* headers.get() of an absent header, an absent option.
Null == "<null>"

\* The number NaN. Every number the model computes from real inputs is
\* >= 0, so the value below zero is free to stand for it.
NaN == 0 - 1

JsAdd(a, b) == IF a = NaN \/ b = NaN THEN NaN ELSE a + b

JsMul(a, b) == IF a = NaN \/ b = NaN THEN NaN ELSE a * b

\* Number(s) on the header strings the server may send: digits parse to
\* their value, the empty string is 0, anything else (an HTTP-date) is NaN.
Number(s) ==
  CASE s = "0" -> 0
    [] s = "1" -> 1
    [] s = "2" -> 2
    [] s = ""  -> 0
    [] OTHER   -> NaN

\* a ?? b
Coalesce(a, b) == IF a = Null THEN b ELSE a

RECURSIVE Pow2(_)
\* Math.pow(2, n) for the loop counter n >= 0.
Pow2(n) == IF n <= 0 THEN 1 ELSE 2 * Pow2(n - 1)

\* Whether JSON.parse accepts the text.
IsJson(text) == text \in {"{\"id\":1}", "{\"id\":77}"}

\* JSON.parse of a text it accepts: the decoded value.
JsonParse(text) ==
  CASE text = "{\"id\":1}"  -> [id |-> 1]
    [] text = "{\"id\":77}" -> [id |-> 77]

(***************************************************************************)
(* Inputs: the request descriptor and what the remote service answers      *)
(***************************************************************************)

Methods == {"GET"}

Paths == {"/api/v1/courses"}

\* canvas.ts:29  the loop bound: options.maxRetries when it is given (a
\* number nothing validates), the default when it is absent.
MaxRetriesValues == {DefaultMaxRetries} \cup ((0 - 1) .. MaxRetriesArg)

Statuses == {200, 404, 429, 500, 503}

ReasonPhrase(status) ==
  CASE status = 200 -> "OK"
    [] status = 404 -> "Not Found"
    [] status = 429 -> "Too Many Requests"
    [] status = 500 -> "Internal Server Error"
    [] status = 503 -> "Service Unavailable"
    [] OTHER        -> ""

RetryAfterHeaders == {Null, "2", "Wed, 21 Oct 2026 07:28:00 GMT"}

Bodies == {"", "Course not found", "{\"id\":1}"}

\* The responses an exchange may deliver. readable = FALSE is an error
\* response whose body stream fails while it is read (text() rejects).
Responses ==
  { r \in [status : Statuses, statusText : {ReasonPhrase(s) : s \in Statuses},
           retryAfter : RetryAfterHeaders, body : Bodies, readable : BOOLEAN] :
      /\ r.statusText = ReasonPhrase(r.status)
      /\ r.status \notin {429, 503} => r.retryAfter = Null
      /\ r.status = 503 => r.retryAfter \in {Null, "2"}
      /\ r.status \in {200, 429} => r.readable
      /\ r.status = 200 => r.body # "Course not found"
      /\ r.status = 404 => r.body # ""
      /\ r.status \in {429, 500} => r.body = "" /\ r.readable
      /\ r.status = 503 => r.body = "Course not found" \/ ~r.readable
      /\ ~r.readable => r.body = "" }

\* What fetch() rejects with when the exchange itself fails.
TransportErrors ==
  { [kind |-> "transport", code |-> c] : c \in {"ECONNREFUSED", "ETIMEDOUT"} }

NoResponse == [status |-> 0, statusText |-> "", retryAfter |-> Null,
               body |-> "", readable |-> FALSE]

NoError == [kind |-> "none"]

NoOutcome == [kind |-> "none"]

(***************************************************************************)
(* Values of the entry point and of the tools                              *)
(***************************************************************************)

\* !x for the strings and absent values the entry point tests.
Falsy(x) == x \in {Null, ""}

\* a || b
JsOr(a, b) == IF Falsy(a) THEN b ELSE a

\* The JavaScript values a tools/call request may carry as arguments.
Undefined == [t |-> "undefined"]

Num(n) == [t |-> "number", n |-> n]

Str(s) == [t |-> "string", s |-> s]

Arr(items) == [t |-> "array", items |-> items]

\* Whether `if (x)` takes the branch.
Truthy(x) ==
  \/ x.t = "string" /\ x.s # ""
  \/ x.t = "number" /\ x.n # 0 /\ x.n # NaN
  \/ x.t = "array"

\* `${x}` of a value.
Show(x) ==
  CASE x.t = "string" -> x.s
    [] x.t = "number" -> ToString(x.n)
    [] OTHER          -> "undefined"

\* process.env once the .env files are loaded (index.ts:2-15).
Environments ==
  [CANVAS_BASE_URL  : {Null, "", "https://canvas.example/",
                       "https://canvas.example//"},
   CANVAS_TOKEN     : {Null, "token-a"},
   CANVAS_API_TOKEN : {Null, "token-b"}]

\* url.endsWith('/')
EndsWithSlash(url) ==
  Len(url) > 0 /\ SubSeq(url, Len(url), Len(url)) = "/"

RECURSIVE StripTrailingSlashes(_)
\* baseUrl.replace(/\/+$/, ''): the string without the slashes it ends in.
StripTrailingSlashes(url) ==
  IF EndsWithSlash(url)
  THEN StripTrailingSlashes(SubSeq(url, 1, Len(url) - 1))
  ELSE url

NoClient == [baseUrl |-> Null, token |-> Null]

\* A constructor that keeps the base URL as it is given.
NewCanvasClientVerbatim(baseUrl, token) ==
  [baseUrl |-> baseUrl, token |-> token]

\* new CanvasClient(baseUrl, token)
NewCanvasClient(baseUrl, token) ==
  [baseUrl |-> StripTrailingSlashes(baseUrl), token |-> token]

NotExited == [exited |-> FALSE]

\* process.exit(code)
Exited(code) == [exited |-> TRUE, code |-> code]

\* No connection test has settled.
NoResult == [state |-> "none"]

\* No tools/call request is at hand.
NoCall == [name |-> Null, arguments |-> Undefined]

\* The handler has not parsed its input.
NotParsed == [ok |-> FALSE, error |-> [kind |-> "none"]]

NoReply == [kind |-> "none"]

\* No earlier request() call was observed.
NoFirst == [seen |-> FALSE]

(***************************************************************************)
(* State                                                                   *)
(***************************************************************************)

VARIABLES
  method,       \* options.method
  path,         \* options.path
  maxRetries,   \* the loop bound, after the default is applied
  attempt,      \* the loop counter
  pc,           \* "loop" | "fetch" | "wait" | "done"
  requests,     \* number of fetch() calls issued
  history,      \* per completed exchange: how it ended
  response,     \* the response of this iteration of the loop
  caught,       \* the error the catch clause holds
  backoffTime,  \* argument of the wait() being awaited
  waits,        \* arguments of the wait() calls that have elapsed
  outcome,      \* what the call handed to its caller
  env,          \* process.env as the entry point reads it
  main,         \* position of the entry point's module-level script
  exit,         \* whether the process has exited, and its status
  client,       \* the CanvasClient the entry point constructed
  connected,    \* server.connect(transport) has been called
  probe,        \* progress of the deferred connection test
  probeResult,  \* what testConnection() handed to a caller awaiting it
  console,      \* what the connection test wrote to the console
  call,         \* the tools/call request being dispatched
  callPc,       \* position of its dispatch
  handlerRuns,  \* names of the tools whose handler it has invoked
  validated,    \* what the handler's schema parse produced
  clientCalls,  \* the API requests its handler has made, in order
  reply,        \* what the dispatcher handed back for it
  served,       \* number of tools/call requests completed
  suspended,    \* the other calls taken up, awaiting an API request: a bag
  log,          \* what each exchange of this request() call delivered
  firstCall     \* how an earlier request() call of the caller went

\* What a caller that issues a descriptor twice observes.
repeatVars == <<log, firstCall>>

requestVars == <<method, path, maxRetries, attempt, pc, requests, history,
                 response, caught, backoffTime, waits, outcome, repeatVars>>

processVars == <<env, main, exit, client, connected>>

probeVars == <<probe, probeResult, console>>

callVars == <<call, callPc, handlerRuns, validated, clientCalls, reply,
              served, suspended>>

serverVars == <<processVars, probeVars, callVars>>

vars == <<requestVars, serverVars>>

descriptor == <<method, path, maxRetries>>

NoProbe ==
  /\ probe = "none"
  /\ probeResult = NoResult
  /\ console = <<>>

NoCalls ==
  /\ call = NoCall
  /\ callPc = "idle"
  /\ handlerRuns = <<>>
  /\ validated = NotParsed
  /\ clientCalls = <<>>
  /\ reply = NoReply
  /\ served = 0
  /\ suspended = EmptyBag

\* The request is followed on its own: no entry point runs beside it.
Standalone ==
  /\ env = [CANVAS_BASE_URL |-> Null, CANVAS_TOKEN |-> Null,
            CANVAS_API_TOKEN |-> Null]
  /\ main = "none"
  /\ exit = NotExited
  /\ client = NoClient
  /\ connected = FALSE
  /\ NoProbe
  /\ NoCalls

Init ==
  /\ method \in Methods
  /\ path \in Paths
  /\ maxRetries \in MaxRetriesValues
  /\ attempt = 0
  /\ pc = "loop"
  /\ requests = 0
  /\ history = <<>>
  /\ response = NoResponse
  /\ caught = NoError
  /\ backoffTime = 0
  /\ waits = <<>>
  /\ outcome = NoOutcome
  /\ log = <<>>
  /\ firstCall = NoFirst
  /\ Standalone

(***************************************************************************)
(* Reading the history                                                     *)
(***************************************************************************)

Last(seq) == seq[Len(seq)]

\* How the exchange of attempt index i - 1 ended.
Is429(e) == e.kind = "response" /\ e.status = 429

Is2xx(e) == e.kind = "response" /\ e.status >= 200 /\ e.status <= 299

Is4xx(e) ==
  e.kind = "response" /\ e.status >= 400 /\ e.status <= 499 /\ e.status # 429

Is5xx(e) == e.kind = "response" /\ e.status >= 500 /\ e.status <= 599

IsException(e) == e.kind = "exception"

(***************************************************************************)
(* CanvasClient.request                                                    *)
(***************************************************************************)

\* response.ok
Ok(status) == status >= 200 /\ status <= 299

\* canvas.ts:71
IsClientError(status) == status >= 400 /\ status < 500 /\ status # 429

\* canvas.ts:75, 89
LastAttempt == attempt = maxRetries - 1

\* canvas.ts:56
RetryAfter(r) == Number(Coalesce(r.retryAfter, "1"))

\* A rate-limit wait that leaves the attempt index out.
RateLimitBackoffHintOnly(retryAfter, a) == JsMul(retryAfter, 1000)

\* canvas.ts:57
RateLimitBackoff(retryAfter, a) == JsMul(JsAdd(retryAfter, a), 1000)

\* A backoff that grows by one second per attempt.
ExpBackoffLinear(a) == (a + 1) * 1000

\* canvas.ts:80, 94
ExpBackoff(a) == Pow2(a) * 1000

\* canvas.ts:65  await response.text().catch(() => '')
ErrorText(r) == IF r.readable THEN r.body ELSE ""

\* An error built from the first response of the call.
HttpErrorOfFirst(r) ==
  [kind |-> "http", method |-> method, path |-> path,
   status |-> IF history = <<>> THEN r.status ELSE history[1].status,
   statusText |-> r.statusText, text |-> ErrorText(r)]

\* canvas.ts:66-68  the message's parts; an empty text adds nothing to it.
HttpError(r) ==
  [kind |-> "http", method |-> method, path |-> path, status |-> r.status,
   statusText |-> r.statusText, text |-> ErrorText(r)]

\* canvas.ts:85  what response.json() rejects with on a body that is not
\* JSON.
DecodeError(r) == [kind |-> "syntax", text |-> r.body]

\* The fallback raising the structured error of the last response.
ExhaustedErrorStructured ==
  IF history = <<>>
  THEN [kind |-> "exhausted", method |-> method, path |-> path,
        maxRetries |-> maxRetries]
  ELSE [kind |-> "http", method |-> method, path |-> path,
        status |-> Last(history).status,
        statusText |-> ReasonPhrase(Last(history).status), text |-> ""]

\* canvas.ts:98
ExhaustedError ==
  [kind |-> "exhausted", method |-> method, path |-> path,
   maxRetries |-> maxRetries]

\* The promise of request() rejects.
Raise(err) ==
  /\ pc' = "done"
  /\ outcome' = [kind |-> "raised", error |-> err]
  /\ UNCHANGED backoffTime

\* The promise of request() resolves.
Return(value) ==
  /\ pc' = "done"
  /\ outcome' = [kind |-> "returned", value |-> value]
  /\ UNCHANGED backoffTime

\* A wait() whose promise is not awaited: the loop goes straight on.
WaitUnawaited(ms) ==
  /\ pc' = "loop"
  /\ backoffTime' = ms
  /\ UNCHANGED outcome

\* A wait that is skipped when no attempt is left: the call gives up at
\* once.
WaitUnlessLastAttempt(ms) ==
  IF attempt = maxRetries - 1
  THEN /\ pc' = "done"
       /\ outcome' = [kind |-> "raised",
                      error |-> [kind |-> "exhausted", method |-> method,
                                 path |-> path, maxRetries |-> maxRetries]]
       /\ UNCHANGED backoffTime
  ELSE /\ pc' = "wait"
       /\ backoffTime' = ms
       /\ UNCHANGED outcome

\* await wait(ms)
Wait(ms) ==
  /\ pc' = "wait"
  /\ backoffTime' = ms
  /\ UNCHANGED outcome

\* A catch clause that wraps what it rethrows.
CatchWrapping(err) ==
  /\ caught' = err
  /\ IF LastAttempt THEN Raise([kind |-> "wrapped", cause |-> err.kind])
     ELSE Wait(ExpBackoff(attempt))

\* A catch clause that waits and goes on whatever the attempt.
CatchAlwaysRetrying(err) ==
  /\ caught' = err
  /\ Wait(ExpBackoff(attempt))

\* canvas.ts:88-95  the catch clause of the loop body's try.
Catch(err) ==
  /\ caught' = err
  /\ IF LastAttempt THEN Raise(err) ELSE Wait(ExpBackoff(attempt))

\* A throw that leaves the loop for the caller.
ThrowToCaller(err) ==
  /\ caught' = err
  /\ Raise(err)

\* A throw inside the try block (canvas.ts:72, 76, 85) lands in its catch.
ThrowInTry(err) == Catch(err)

\* The exchange of this attempt ended with response r. The history keeps
\* what the loop body reads of every response: the status, and of a 429 the
\* Retry-After header (canvas.ts:55-56).
Received(r) ==
  /\ response' = r
  /\ history' = Append(history,
                  [kind |-> "response", status |-> r.status,
                   retryAfter |-> IF r.status = 429 THEN r.retryAfter ELSE Null])

\* A loop whose condition lets one attempt too many through.
FetchOneMore ==
  /\ pc = "loop"
  /\ attempt <= maxRetries
  /\ pc' = "fetch"
  /\ requests' = requests + 1
  /\ UNCHANGED <<descriptor, attempt, history, response, caught, backoffTime,
                 waits, outcome>>

\* canvas.ts:50, 52  the loop condition holds: issue the request.
Fetch ==
  /\ pc = "loop"
  /\ attempt < maxRetries
  /\ pc' = "fetch"
  /\ requests' = requests + 1
  /\ UNCHANGED <<descriptor, attempt, history, response, caught, backoffTime,
                 waits, outcome>>

\* canvas.ts:55-61
RateLimited ==
  /\ pc = "fetch"
  /\ \E r \in Responses :
       /\ r.status = 429
       /\ Received(r)
       /\ Wait(RateLimitBackoff(RetryAfter(r), attempt))
  /\ UNCHANGED <<descriptor, attempt, requests, caught, waits>>

\* canvas.ts:64-82
HttpFailure ==
  /\ pc = "fetch"
  /\ \E r \in Responses :
       /\ r.status # 429
       /\ ~Ok(r.status)
       /\ Received(r)
       /\ IF IsClientError(r.status) THEN ThrowInTry(HttpError(r))
          ELSE IF LastAttempt THEN ThrowInTry(HttpError(r))
          ELSE Wait(ExpBackoff(attempt)) /\ UNCHANGED caught
  /\ UNCHANGED <<descriptor, attempt, requests, waits>>

\* canvas.ts:84-86
Success ==
  /\ pc = "fetch"
  /\ \E r \in Responses :
       /\ r.status # 429
       /\ Ok(r.status)
       /\ Received(r)
       /\ IF IsJson(r.body)
          THEN Return(JsonParse(r.body)) /\ UNCHANGED caught
          ELSE ThrowInTry(DecodeError(r))
  /\ UNCHANGED <<descriptor, attempt, requests, waits>>

\* canvas.ts:52, 88  fetch() rejects.
TransportFailure ==
  /\ pc = "fetch"
  /\ \E e \in TransportErrors :
       /\ history' = Append(history, [kind |-> "exception", status |-> 0,
                                      retryAfter |-> Null])
       /\ Catch(e)
  /\ UNCHANGED <<descriptor, attempt, requests, response, waits>>

\* A `continue` that skips the loop's update after a rate-limit wait.
ContinueExemptRateLimit ==
  /\ attempt' = IF Is429(Last(history)) THEN attempt ELSE attempt + 1
  /\ pc' = "loop"

\* canvas.ts:50  `continue` (canvas.ts:60, 81) and the end of the catch
\* clause (canvas.ts:95) alike run the loop's attempt++ and go back to its
\* condition.
Continue ==
  /\ attempt' = attempt + 1
  /\ pc' = "loop"

\* canvas.ts:59, 80, 94  the wait() being awaited elapses.
WaitElapsed ==
  /\ pc = "wait"
  /\ waits' = Append(waits, backoffTime)
  /\ backoffTime' = 0
  /\ caught' = NoError
  /\ response' = NoResponse
  /\ Continue
  /\ UNCHANGED <<descriptor, requests, history, outcome>>

\* A loop that ends without the final throw: the function falls off its end.
LoopExitSilent ==
  /\ pc = "loop"
  /\ ~(attempt < maxRetries)
  /\ pc' = "done"
  /\ UNCHANGED <<descriptor, attempt, requests, history, response, caught,
                 backoffTime, waits, outcome>>

\* canvas.ts:50, 98  the loop condition fails.
LoopExit ==
  /\ pc = "loop"
  /\ ~(attempt < maxRetries)
  /\ Raise(ExhaustedError)
  /\ UNCHANGED <<descriptor, attempt, requests, history, response, caught,
                 waits>>

\* The steps of one request() call; nothing else moves meanwhile.
Next ==
  \/ Fetch /\ UNCHANGED <<serverVars, repeatVars>>
  \/ RateLimited /\ UNCHANGED <<serverVars, repeatVars>>
  \/ HttpFailure /\ UNCHANGED <<serverVars, repeatVars>>
  \/ Success /\ UNCHANGED <<serverVars, repeatVars>>
  \/ TransportFailure /\ UNCHANGED <<serverVars, repeatVars>>
  \/ WaitElapsed /\ UNCHANGED <<serverVars, repeatVars>>
  \/ LoopExit /\ UNCHANGED <<serverVars, repeatVars>>

Spec == Init /\ [][Next]_vars

\* Every exchange and every wait completes.
FairSpec == Spec /\ WF_vars(Next)

(***************************************************************************)
(* Errors and their messages                                               *)
(***************************************************************************)

\* What z.object(...).parse(input) throws.
ZodError(issue) == [kind |-> "zod", issue |-> issue]

\* What the runtime throws on a property read of undefined or a call of a
\* missing method.
TypeError(text) == [kind |-> "type", text |-> text]

\* error instanceof Error
IsError(e) ==
  e.kind \in {"http", "exhausted", "transport", "syntax", "zod", "type"}

\* error.message
Message(e) ==
  CASE e.kind = "http" ->
         "Canvas " \o e.method \o " " \o e.path \o " failed: "
           \o ToString(e.status) \o " " \o e.statusText
           \o (IF e.text # "" THEN ": " \o e.text ELSE "")
    [] e.kind = "exhausted" ->
         "Canvas " \o e.method \o " " \o e.path \o " failed after "
           \o ToString(e.maxRetries) \o " retries"
    [] e.kind = "transport" -> "fetch failed: " \o e.code
    [] e.kind = "syntax"    -> "Unexpected JSON input: " \o e.text
    [] e.kind = "zod"       -> "ZodError: " \o e.issue
    [] e.kind = "type"      -> e.text
    [] OTHER                -> ""

(***************************************************************************)
(* The outcomes of one API request, as its caller sees them                *)
(***************************************************************************)

\* The 2xx bodies that JSON.parse accepts.
JsonBodies == { b \in Bodies : IsJson(b) }

\* The error of canvas.ts:66-68 for a request of method m to path p.
RequestHttpError(m, p, r) ==
  [kind |-> "http", method |-> m, path |-> p, status |-> r.status,
   statusText |-> r.statusText, text |-> ErrorText(r)]

\* The error of canvas.ts:98.
RequestExhaustedError(m, p, n) ==
  [kind |-> "exhausted", method |-> m, path |-> p, maxRetries |-> n]

\* Every way request({method: m, path: p, maxRetries: n}) can end: it
\* resolves with the decoded body of a 2xx response, or rejects with the
\* error of a failed response, of a failed exchange, of a 2xx body that is
\* not JSON, or of the loop's end.
RequestOutcomes(m, p, n) ==
  { [kind |-> "returned", value |-> JsonParse(b)] : b \in JsonBodies }
    \cup
  { [kind |-> "raised", error |-> err] :
      err \in { RequestHttpError(m, p, r) :
                  r \in { x \in Responses : x.status # 429 /\ ~Ok(x.status) } }
              \cup TransportErrors
              \cup { DecodeError(r) :
                       r \in { x \in Responses : Ok(x.status) /\ ~IsJson(x.body) } }
              \cup { RequestExhaustedError(m, p, n) } }

\* canvas.ts:102-108  get and post leave maxRetries to its default.
ClientOutcomes(m, p) == RequestOutcomes(m, p, DefaultMaxRetries)

(***************************************************************************)
(* The tools                                                               *)
(***************************************************************************)

\* index.ts:133-146  the registry, in its order. `catches` tells whether the
\* handler's body sits in a try whose catch returns a text block
\* (create_assignment.ts:12, 52; attach_rubric.ts:12, 75); `what` is the
\* wording of that text block.
tools ==
  << [name |-> "create_assignment",           catches |-> TRUE,
      what |-> "create assignment"],
     [name |-> "attach_rubric_to_assignment", catches |-> TRUE,
      what |-> "create/attach rubric"],
     [name |-> "list_assignments",            catches |-> FALSE, what |-> ""],
     [name |-> "create_module",               catches |-> FALSE, what |-> ""],
     [name |-> "add_module_item",             catches |-> FALSE, what |-> ""],
     [name |-> "create_page",                 catches |-> FALSE, what |-> ""],
     [name |-> "list_pages",                  catches |-> FALSE, what |-> ""],
     [name |-> "create_quiz",                 catches |-> FALSE, what |-> ""],
     [name |-> "create_quiz_question",        catches |-> FALSE, what |-> ""],
     [name |-> "create_rubric",               catches |-> FALSE, what |-> ""],
     [name |-> "list_rubrics",                catches |-> FALSE, what |-> ""],
     [name |-> "upload_file",                 catches |-> FALSE, what |-> ""] >>

ToolNames == { tools[i].name : i \in 1 .. Len(tools) }

NoTool == [name |-> Null, catches |-> FALSE, what |-> ""]

\* A lookup that falls back to the first tool of the registry.
FindOrFirst(name) ==
  IF name \in ToolNames
  THEN tools[CHOOSE i \in 1 .. Len(tools) : tools[i].name = name]
  ELSE tools[1]

\* index.ts:179  tools.find(t => t.name === name): the first match, or
\* nothing.
Find(name) ==
  IF \E i \in 1 .. Len(tools) : tools[i].name = name
  THEN tools[CHOOSE i \in 1 .. Len(tools) :
               /\ tools[i].name = name
               /\ \A j \in 1 .. (i - 1) : tools[j].name # name]
  ELSE NoTool

\* The names a caller may send: the registered ones and one that is not.
CallNames == ToolNames \cup {"delete_course"}

\* The values a caller may send as course_id: a number, a string of digits,
\* a string that is no number.
CourseIdValues == {Num(7), Str("2"), Str("abc")}

\* The arguments object of a call. `rest` stands for the tool's other
\* fields: "ok" when each of them satisfies the tool's schema, "bad" when one
\* does not. question and answers are the optional fields of create_quiz.
ArgumentObjects ==
  [t : {"object"}, course_id : CourseIdValues, rest : {"ok", "bad"},
   question : {Undefined, Str(""), Str("What is 2 + 2?")},
   answers : {Undefined, Arr(<<"4">>), Arr(<<"4", "5">>)}]

\* params.arguments of a tools/call request for the tool `name`: absent, or
\* an object.
Arguments(name) ==
  {Undefined} \cup
  { a \in ArgumentObjects :
      /\ name # "create_quiz" => a.question = Undefined /\ a.answers = Undefined
      /\ name \notin ToolNames => a.course_id = Num(7) /\ a.rest = "ok" }

\* schemas.ts:5-8  z.union([z.number().int().positive(),
\* z.string().regex(/^\d+$/)]): whether the value passes.
IsCourseId(x) ==
  \/ x.t = "number" /\ x.n > 0
  \/ x.t = "string" /\ x.s \in {"0", "1", "2"}

\* The schema of upload_file: z.union([z.number().int(),
\* z.string().regex(/^[0-9]+$/)])
IsUploadCourseId(x) ==
  \/ x.t = "number" /\ x.n # NaN
  \/ x.t = "string" /\ x.s \in {"0", "1", "2"}

\* .transform(Number) of a value that passed.
ToNumber(x) == IF x.t = "number" THEN x.n ELSE Number(x.s)

\* A parse that accepts whatever it is given.
ParseAnything(name, input) ==
  IF input = Undefined
  THEN [ok |-> TRUE, course_id |-> NaN, question |-> Undefined,
        answers |-> Undefined]
  ELSE [ok |-> TRUE,
        course_id |-> IF input.course_id.t = "number" THEN input.course_id.n
                      ELSE NaN,
        question |-> input.question, answers |-> input.answers]

\* XInput.parse(input) of the tool `name`: the parsed value, or the ZodError
\* it throws.
Parse(name, input) ==
  IF input = Undefined
    THEN [ok |-> FALSE, error |-> ZodError("Required")]
  ELSE IF ~(IF name = "upload_file" THEN IsUploadCourseId(input.course_id)
            ELSE IsCourseId(input.course_id))
    THEN [ok |-> FALSE, error |-> ZodError("course_id: Invalid input")]
  ELSE IF input.rest = "bad"
    THEN [ok |-> FALSE, error |-> ZodError("Invalid input")]
  ELSE [ok |-> TRUE, course_id |-> ToNumber(input.course_id),
        question |-> input.question, answers |-> input.answers]

\* `/api/v1/courses/${v.course_id}`
CoursePath(v) == "/api/v1/courses/" \o ToString(v.course_id)

\* The first API request of the tool's handler, once its input is parsed.
FirstRequest(name, v) ==
  CASE name = "create_assignment" ->
         [method |-> "POST", path |-> CoursePath(v) \o "/assignments"]
    [] name = "attach_rubric_to_assignment" ->
         [method |-> "POST", path |-> CoursePath(v) \o "/rubrics"]
    [] name = "list_assignments" ->
         [method |-> "GET", path |-> CoursePath(v) \o "/assignments"]
    [] name = "create_module" ->
         [method |-> "POST", path |-> CoursePath(v) \o "/modules"]
    [] name = "add_module_item" ->
         [method |-> "POST",
          path |-> CoursePath(v) \o "/modules/:module_id/items"]
    [] name = "create_page" ->
         [method |-> "POST", path |-> CoursePath(v) \o "/pages"]
    [] name = "list_pages" ->
         [method |-> "GET", path |-> CoursePath(v) \o "/pages"]
    [] name = "create_quiz" ->
         [method |-> "POST", path |-> CoursePath(v) \o "/quizzes"]
    [] name = "create_quiz_question" ->
         [method |-> "POST",
          path |-> CoursePath(v) \o "/quizzes/:quiz_id/questions"]
    [] name = "create_rubric" ->
         [method |-> "POST", path |-> CoursePath(v) \o "/rubrics"]
    [] name = "list_rubrics" ->
         [method |-> "GET", path |-> CoursePath(v) \o "/rubrics"]

\* A test that takes any list of answers.
WantsFirstQuestionAnyAnswers(v) ==
  /\ Truthy(v.question)
  /\ Truthy(v.answers)

\* create_quiz.ts:14
WantsFirstQuestion(v) ==
  /\ Truthy(v.question)
  /\ Truthy(v.answers)
  /\ Len(v.answers.items) >= 2

\* Whether the handler goes on to a second API request after its first
\* returned (attach_rubric.ts:50; create_quiz.ts:14-17).
HasSecondRequest(name, v) ==
  \/ name = "attach_rubric_to_assignment"
  \/ name = "create_quiz" /\ WantsFirstQuestion(v)

\* The second API request; `first` is what the first one returned.
SecondRequest(name, v, first) ==
  CASE name = "attach_rubric_to_assignment" ->
         [method |-> "POST", path |-> CoursePath(v) \o "/rubric_associations"]
    [] name = "create_quiz" ->
         [method |-> "POST",
          path |-> CoursePath(v) \o "/quizzes/" \o ToString(first.id)
                     \o "/questions"]

(***************************************************************************)
(* The entry point: startup                                                *)
(***************************************************************************)

Running == ~exit.exited

\* A check that looks at the base URL alone.
MissingBaseUrlOnly(baseUrl, token) == Falsy(baseUrl)

\* index.ts:93  !baseUrl || !token
MissingCredentials(baseUrl, token) == Falsy(baseUrl) \/ Falsy(token)

\* index.ts:89-98  read the environment; exit when a value is missing.
ValidateEnvironment ==
  /\ Running
  /\ main = "validate"
  /\ LET baseUrl == env.CANVAS_BASE_URL
         token   == JsOr(env.CANVAS_TOKEN, env.CANVAS_API_TOKEN)
     IN IF MissingCredentials(baseUrl, token)
        THEN exit' = Exited(1) /\ main' = "exited"
        ELSE exit' = exit /\ main' = "construct"
  /\ UNCHANGED <<env, client, connected, probeVars, callVars, requestVars>>

\* index.ts:101
ConstructClient ==
  /\ Running
  /\ main = "construct"
  /\ client' = NewCanvasClient(env.CANVAS_BASE_URL,
                               JsOr(env.CANVAS_TOKEN, env.CANVAS_API_TOKEN))
  /\ main' = "defer"
  /\ UNCHANGED <<env, exit, connected, probeVars, callVars, requestVars>>

\* index.ts:104  setImmediate(...): the connection test is queued, not run.
ScheduleProbe ==
  /\ Running
  /\ main = "defer"
  /\ probe' = "scheduled"
  /\ main' = "server"
  /\ UNCHANGED <<env, exit, client, connected, probeResult, console, callVars,
                 requestVars>>

\* index.ts:120-196  the server, the registry and the two request handlers.
CreateServer ==
  /\ Running
  /\ main = "server"
  /\ main' = "connect"
  /\ UNCHANGED <<env, exit, client, connected, probeVars, callVars,
                 requestVars>>

\* index.ts:198-201
Connect ==
  /\ Running
  /\ main = "connect"
  /\ connected' = TRUE
  /\ main' = "signals"
  /\ UNCHANGED <<env, exit, client, probeVars, callVars, requestVars>>

\* index.ts:203-225  the rest of the script; from here on the event loop
\* runs callbacks.
InstallShutdown ==
  /\ Running
  /\ main = "signals"
  /\ main' = "idle"
  /\ UNCHANGED <<env, exit, client, connected, probeVars, callVars,
                 requestVars>>

\* index.ts:217-225  SIGINT or SIGTERM arrives.
Shutdown ==
  /\ Running
  /\ main = "idle"
  /\ exit' = Exited(0)
  /\ main' = "exited"
  /\ UNCHANGED <<env, client, connected, probeVars, callVars, requestVars>>

(***************************************************************************)
(* The entry point: the deferred connection test                           *)
(***************************************************************************)

\* A testConnection without its try/catch.
TestConnectionUncaught(o) ==
  IF o.kind = "returned"
  THEN [state |-> "resolved", success |-> TRUE, user |-> o.value]
  ELSE [state |-> "rejected", error |-> o.error]

\* canvas.ts:119-129  what testConnection() resolves with when its get()
\* ended as o.
TestConnection(o) ==
  IF o.kind = "returned"
  THEN [state |-> "resolved", success |-> TRUE, user |-> o.value]
  ELSE [state |-> "resolved", success |-> FALSE,
        error |-> IF IsError(o.error) THEN Message(o.error)
                  ELSE "Unknown error"]

\* index.ts:104-106  the event loop runs the queued callback: it can only
\* do so once the module-level script has run to its end.
ProbeStart ==
  /\ Running
  /\ main = "idle"
  /\ probe = "scheduled"
  /\ probe' = "running"
  /\ console' = Append(console, "Testing Canvas connection...")
  /\ UNCHANGED <<processVars, probeResult, callVars, requestVars>>

\* index.ts:107-116  what the then and catch callbacks of the test write.
Report(result) ==
  IF result.state = "rejected"
    THEN "Canvas connection test exception (continuing)"
  ELSE IF result.success THEN "Connected to Canvas"
  ELSE "Canvas connection failed (continuing; tools will error)"

\* A report that gives up on a failed test.
ProbeCompletesOrAborts(o) ==
  /\ probe' = "reported"
  /\ console' = Append(console, Report(TestConnection(o)))
  /\ IF TestConnection(o).state = "resolved" /\ TestConnection(o).success
     THEN UNCHANGED <<exit, main>>
     ELSE exit' = Exited(1) /\ main' = "exited"
  /\ UNCHANGED <<env, client, connected>>

\* canvas.ts:119-129, index.ts:106-116  the get() of testConnection ended
\* as o: testConnection settles and the callback chained to it reports,
\* all in one turn of the event loop.
ProbeCompletes(o) ==
  /\ probe' = "reported"
  /\ console' = Append(console, Report(TestConnection(o)))
  /\ UNCHANGED processVars

\* The connection test's request ends.
ProbeSettle ==
  /\ Running
  /\ probe = "running"
  /\ \E o \in ClientOutcomes("GET", "/api/v1/users/self") : ProbeCompletes(o)
  /\ UNCHANGED <<probeResult, callVars, requestVars>>

(***************************************************************************)
(* The dispatcher and the handlers                                         *)
(***************************************************************************)

\* The text block of a handler's result: its opening words and, in the
\* text of a failure, the error message it quotes.
Text(head, error) == [type |-> "text", head |-> head, error |-> error]

\* index.ts:179  const tool: the registered tool the call names.
Tool == Find(call.name)

\* The dispatcher's answer to the call: the handler's result, or an error.
Respond(r) ==
  /\ reply' = r
  /\ callPc' = "done"
  /\ served' = served + 1

\* The Error the dispatcher throws: its message is `${head}: ${detail}`, or
\* the head alone when there is no detail.
ErrorReply(head, detail) ==
  [kind |-> "error", head |-> head, detail |-> detail]

\* A dispatcher that hands the handler's error on as it is.
DispatcherRethrow(error) == Respond(ErrorReply(Message(error), ""))

\* index.ts:189-194  the dispatcher's catch clause.
DispatcherCatch(error) ==
  Respond(IF IsError(error)
          THEN ErrorReply("Tool execution failed", Message(error))
          ELSE ErrorReply("Tool execution failed with unknown error", ""))

\* index.ts:187-188  the handler's promise resolves.
DispatcherReturn(result) == Respond([kind |-> "result", content |-> result])

\* create_assignment.ts:52-68, attach_rubric.ts:75-92  the handler's own
\* catch clause builds a text block out of the error and of fields of the
\* raw input; reading a field of an absent input throws.
HandlerCatch(input, error) ==
  IF input = Undefined
  THEN DispatcherCatch(TypeError("Cannot read properties of undefined"))
  ELSE DispatcherReturn(
         Text("Failed to " \o Tool.what,
              IF IsError(error) THEN Message(error) ELSE "Unknown error"))

\* A handler without a try of its own: what it throws is the dispatcher's.
HandlerThrowToDispatcher(input, error) == DispatcherCatch(error)

\* An error thrown in the handler's body.
HandlerThrow(input, error) ==
  IF Tool.catches THEN HandlerCatch(input, error) ELSE DispatcherCatch(error)

\* The handler returns its text block.
HandlerReturn(head) == DispatcherReturn(Text(head, ""))

\* An API request the handler has made and not yet seen the end of.
InFlightCall(req) ==
  [method |-> req.method, path |-> req.path, state |-> "inflight",
   error |-> NoError]

\* The tools/call requests a caller may send: request.params.
Calls ==
  UNION { { [name |-> name, arguments |-> arguments] :
              arguments \in Arguments(name) } : name \in CallNames }

\* A handler that starts its API requests together.
RequestsTogether(name, v) ==
  IF HasSecondRequest(name, v)
  THEN << InFlightCall(FirstRequest(name, v)),
          InFlightCall(SecondRequest(name, v, [id |-> 1])) >>
  ELSE << InFlightCall(FirstRequest(name, v)) >>

\* The API requests the handler has started when it first awaits: the first
\* one alone.
RequestsAfterParse(name, v) == << InFlightCall(FirstRequest(name, v)) >>

\* The bound on the number of tools/call requests of one run.
MaxCalls == 2

\* The calls taken up and not yet answered.
InProgress ==
  BagCardinality(suspended)
    + (IF callPc \in {"lookup", "await"} THEN 1 ELSE 0)

\* A dispatcher whose handlers keep what the last call left behind.
TakeUpKeepingLast ==
  /\ Running
  /\ main = "idle"
  /\ connected
  /\ served + InProgress < MaxCalls
  /\ call' \in Calls
  /\ callPc' = "lookup"
  /\ reply' = NoReply
  /\ UNCHANGED <<handlerRuns, validated, clientCalls, served, processVars,
                 probeVars, requestVars>>

\* The transport hands the server a tools/call request; its handling starts
\* from nothing.
TakeUp ==
  /\ Running
  /\ main = "idle"
  /\ connected
  /\ served + InProgress < MaxCalls
  /\ call' \in Calls
  /\ callPc' = "lookup"
  /\ handlerRuns' = <<>>
  /\ validated' = NotParsed
  /\ clientCalls' = <<>>
  /\ reply' = NoReply
  /\ UNCHANGED <<served, processVars, probeVars, requestVars>>

\* A tools/call request arrives on the connected transport while no call
\* is being handled.
CallArrives ==
  /\ callPc \in {"idle", "done"}
  /\ TakeUp
  /\ UNCHANGED suspended

\* What a handler that awaits keeps of its call: the locals of the
\* dispatcher's and of the handler's invocation.
Context ==
  [call |-> call, handlerRuns |-> handlerRuns, validated |-> validated,
   clientCalls |-> clientCalls]

\* A scheduler that may leave a handler at any of its statements.
AtAnyStatement == callPc \in {"lookup", "await"}

\* index.ts:187  the handler being run gives the event loop back at an
\* await, and nowhere else.
AtAwait == callPc = "await"

\* index.ts:176, 187  a tools/call request arrives while the handler of an
\* earlier call awaits its API request: nothing holds it back, the
\* dispatcher takes it up and the earlier call stays suspended.
CallArrivesMeanwhile ==
  /\ AtAwait
  /\ TakeUp
  /\ suspended' = suspended (+) SetToBag({Context})

\* index.ts:187  the API request of a suspended call is about to end: the
\* event loop turns to that call. The call it ran last stays suspended if
\* it awaits; if it was answered nothing of it is kept.
TurnTo(c) ==
  /\ Running
  /\ callPc \in {"idle", "done", "await"}
  /\ BagIn(c, suspended)
  /\ call' = c.call
  /\ handlerRuns' = c.handlerRuns
  /\ validated' = c.validated
  /\ clientCalls' = c.clientCalls
  /\ callPc' = "await"
  /\ reply' = NoReply
  /\ suspended' = IF AtAwait
                  THEN (suspended (-) SetToBag({c})) (+) SetToBag({Context})
                  ELSE suspended (-) SetToBag({c})
  /\ UNCHANGED <<served, processVars, probeVars, requestVars>>

\* Some suspended call comes to its turn: none of them goes before another.
Resume == \E c \in BagToSet(suspended) : TurnTo(c)

\* A dispatcher that looks the tool up only to report it.
DispatchWithoutInvoking ==
  /\ Running
  /\ callPc = "lookup"
  /\ IF Find(call.name) = NoTool
     THEN Respond(ErrorReply("Unknown tool", call.name))
     ELSE Respond([kind |-> "result", content |-> Text("", "")])
  /\ UNCHANGED <<call, handlerRuns, validated, clientCalls, suspended,
                 processVars, probeVars, requestVars>>

\* The upload_file handler after its parse: a missing file is reported in a
\* text block; for a file that exists the handler calls
\* client.getBaseUrl(), a method CanvasClient does not have.
UploadFile(input, exists) ==
  /\ IF exists
     THEN HandlerThrow(input, TypeError("client.getBaseUrl is not a function"))
     ELSE HandlerReturn("File not found")
  /\ UNCHANGED clientCalls

\* The handler runs up to its first await: its first statement is
\* XInput.parse(input); a parsed input leads to the first API request.
Handler(name, input) ==
  LET v == Parse(name, input)
  IN /\ validated' = v
     /\ IF ~v.ok
        THEN HandlerThrow(input, v.error) /\ UNCHANGED clientCalls
        ELSE IF name = "upload_file"
        THEN \E exists \in BOOLEAN : UploadFile(input, exists)
        ELSE /\ clientCalls' = RequestsAfterParse(name, v)
             /\ callPc' = "await"
             /\ UNCHANGED <<reply, served>>

\* index.ts:176-187  look the tool up by name; unknown: throw; known: call
\* its handler with the arguments as they came.
Dispatch ==
  /\ Running
  /\ callPc = "lookup"
  /\ IF Tool = NoTool
     THEN /\ Respond(ErrorReply("Unknown tool", call.name))
          /\ UNCHANGED <<handlerRuns, validated, clientCalls>>
     ELSE /\ handlerRuns' = Append(handlerRuns, Tool.name)
          /\ Handler(Tool.name, call.arguments)
  /\ UNCHANGED <<call, suspended, processVars, probeVars, requestVars>>

\* The API request the handler awaits ends: with an error, which the handler
\* throws on; or with a value, after which the handler makes its second
\* request or returns.
RequestSettles ==
  /\ Running
  /\ callPc = "await"
  /\ LET n   == Len(clientCalls)
         req == clientCalls[n]
     IN \E o \in ClientOutcomes(req.method, req.path) :
          LET settled ==
                [clientCalls EXCEPT
                   ![n].state = o.kind,
                   ![n].error = IF o.kind = "raised" THEN o.error
                                ELSE NoError]
          IN IF o.kind = "raised"
             THEN /\ clientCalls' = settled
                  /\ HandlerThrow(call.arguments, o.error)
             ELSE IF n = 1 /\ HasSecondRequest(Tool.name, validated)
             THEN /\ clientCalls' =
                       Append(settled,
                              InFlightCall(SecondRequest(Tool.name, validated,
                                                         o.value)))
                  /\ callPc' = "await"
                  /\ UNCHANGED <<reply, served>>
             ELSE /\ clientCalls' = settled
                  /\ HandlerReturn("Done")
  /\ UNCHANGED <<call, handlerRuns, validated, suspended, processVars,
                 probeVars, requestVars>>

(***************************************************************************)
(* The server process                                                      *)
(***************************************************************************)

\* No request() call of its own is being followed.
NoRequest ==
  /\ method = "GET"
  /\ path = ""
  /\ maxRetries = DefaultMaxRetries
  /\ attempt = 0
  /\ pc = "none"
  /\ requests = 0
  /\ history = <<>>
  /\ response = NoResponse
  /\ caught = NoError
  /\ backoffTime = 0
  /\ waits = <<>>
  /\ outcome = NoOutcome
  /\ log = <<>>
  /\ firstCall = NoFirst

\* The process starts: node runs index.ts.
ServerInit ==
  /\ env \in Environments
  /\ main = "validate"
  /\ exit = NotExited
  /\ client = NoClient
  /\ connected = FALSE
  /\ NoProbe
  /\ NoCalls
  /\ NoRequest

ServerNext ==
  \/ ValidateEnvironment
  \/ ConstructClient
  \/ ScheduleProbe
  \/ CreateServer
  \/ Connect
  \/ InstallShutdown
  \/ Shutdown
  \/ ProbeStart
  \/ ProbeSettle
  \/ CallArrives
  \/ Dispatch
  \/ RequestSettles

\* The process from its start, with a caller that sends its next call once
\* the last one was answered.
ServerSpec == ServerInit /\ [][ServerNext]_vars

(***************************************************************************)
(* The running server and a caller that does not wait for its answers      *)
(***************************************************************************)

\* The script has run to its end, the server is connected and the
\* connection test has reported; no call has arrived.
PipelinedInit ==
  /\ env = [CANVAS_BASE_URL |-> "https://canvas.example/",
            CANVAS_TOKEN |-> "token-a", CANVAS_API_TOKEN |-> Null]
  /\ main = "idle"
  /\ exit = NotExited
  /\ client = NewCanvasClient(env.CANVAS_BASE_URL,
                              JsOr(env.CANVAS_TOKEN, env.CANVAS_API_TOKEN))
  /\ connected = TRUE
  /\ probe = "reported"
  /\ probeResult = NoResult
  /\ console = <<"Testing Canvas connection...", "Connected to Canvas">>
  /\ NoCalls
  /\ NoRequest

PipelinedNext ==
  \/ CallArrives
  \/ CallArrivesMeanwhile
  \/ Resume
  \/ Dispatch
  \/ RequestSettles

PipelinedSpec == PipelinedInit /\ [][PipelinedNext]_vars

(***************************************************************************)
(* testConnection, with its request followed step by step                  *)
(***************************************************************************)

\* canvas.ts:121  a caller awaits client.testConnection(): its
\* get('/api/v1/users/self') is a request() with the default maxRetries,
\* about to enter its loop.
ProbeInit ==
  /\ method = "GET"
  /\ path = "/api/v1/users/self"
  /\ maxRetries = DefaultMaxRetries
  /\ attempt = 0
  /\ pc = "loop"
  /\ requests = 0
  /\ history = <<>>
  /\ response = NoResponse
  /\ caught = NoError
  /\ backoffTime = 0
  /\ waits = <<>>
  /\ outcome = NoOutcome
  /\ log = <<>>
  /\ firstCall = NoFirst
  /\ env = [CANVAS_BASE_URL |-> "https://canvas.example/",
            CANVAS_TOKEN |-> "token-a", CANVAS_API_TOKEN |-> Null]
  /\ main = "idle"
  /\ exit = NotExited
  /\ client = NewCanvasClient(env.CANVAS_BASE_URL,
                              JsOr(env.CANVAS_TOKEN, env.CANVAS_API_TOKEN))
  /\ connected = TRUE
  /\ probe = "running"
  /\ probeResult = NoResult
  /\ console = <<"Testing Canvas connection...">>
  /\ NoCalls

\* canvas.ts:119-129  the awaited get() has ended: testConnection settles.
TestConnectionSettles ==
  /\ probe = "running"
  /\ pc = "done"
  /\ probeResult' = TestConnection(outcome)
  /\ probe' = "settled"
  /\ UNCHANGED <<requestVars, processVars, console, callVars>>

ProbeNext ==
  \/ Next
  \/ TestConnectionSettles

ProbeSpec == ProbeInit /\ [][ProbeNext]_vars

(***************************************************************************)
(* One descriptor issued twice in succession                               *)
(***************************************************************************)

\* What the remote service answers in the calls that are issued twice: a
\* body that decodes, one that does not, a missing course, a rate limit with
\* its hint, a server error, or no answer at all.
RepeatAnswers ==
  { r \in Responses :
      /\ r.status \in {200, 404, 429, 500}
      /\ r.status = 404 => r.body = "Course not found"
      /\ r.status = 429 => r.retryAfter = "2" }
    \cup {[kind |-> "transport", code |-> "ETIMEDOUT"]}

\* What the exchange that ended in this step delivered: the response, or
\* the error fetch() rejected with.
Delivered ==
  IF history'[Len(history')].kind = "exception" THEN caught' ELSE response'

\* The caller's view of a step of the call. An exchange that ends is noted;
\* in the second call the remote service answers the n-th request as it
\* answered the n-th request of the first call.
Observed ==
  /\ IF Len(history') > Len(history)
     THEN /\ Delivered \in RepeatAnswers
          /\ log' = Append(log, Delivered)
          /\ firstCall.seen =>
               /\ Len(log') <= Len(firstCall.log)
               /\ Delivered = firstCall.log[Len(log')]
     ELSE log' = log
  /\ firstCall' = firstCall
  /\ UNCHANGED serverVars

\* A second call that goes on counting where the first one stopped.
CallAgainKeepingAttempt ==
  /\ attempt' = attempt
  /\ pc' = "loop"
  /\ requests' = 0
  /\ history' = <<>>
  /\ response' = NoResponse
  /\ caught' = NoError
  /\ backoffTime' = 0
  /\ waits' = <<>>
  /\ outcome' = NoOutcome
  /\ log' = <<>>

\* canvas.ts:28-50  request() is entered anew: the options are destructured
\* again and the loop counter is a fresh local; nothing of the earlier call
\* is at hand but the client's base URL and token.
CallAgainFresh ==
  /\ attempt' = 0
  /\ pc' = "loop"
  /\ requests' = 0
  /\ history' = <<>>
  /\ response' = NoResponse
  /\ caught' = NoError
  /\ backoffTime' = 0
  /\ waits' = <<>>
  /\ outcome' = NoOutcome
  /\ log' = <<>>

\* The first call has ended; the caller keeps what it saw of it and issues
\* the same descriptor again.
CallAgain ==
  /\ pc = "done"
  /\ ~firstCall.seen
  /\ firstCall' = [seen |-> TRUE, log |-> log, outcome |-> outcome,
               requests |-> requests, waits |-> waits]
  /\ CallAgainFresh
  /\ UNCHANGED <<descriptor, serverVars>>

RepeatNext ==
  \/ Fetch /\ Observed
  \/ RateLimited /\ Observed
  \/ HttpFailure /\ Observed
  \/ Success /\ Observed
  \/ TransportFailure /\ Observed
  \/ WaitElapsed /\ Observed
  \/ LoopExit /\ Observed
  \/ CallAgain

RepeatSpec == Init /\ [][RepeatNext]_vars

(***************************************************************************)
(* Properties of one request call                                          *)
(***************************************************************************)

Returned == pc = "done" /\ outcome.kind = "returned"

Raised == pc = "done" /\ outcome.kind = "raised"

\* C1: a response with a status in 400..499 other than 429 ends the call
\* at once: the call has raised, no wait was started for that attempt and
\* no request was issued after it, whatever maxRetries is.
C1_ClientErrorEndsCall ==
  \A i \in 1 .. Len(history) :
    Is4xx(history[i]) =>
      /\ i = Len(history)
      /\ requests = i
      /\ Raised
      /\ Len(waits) = i - 1

\* C2: a 2xx response ends the call with one decoded result: the call has
\* returned, no wait was started and no request was issued after that
\* response.
C2_SuccessEndsCall ==
  \A i \in 1 .. Len(history) :
    Is2xx(history[i]) =>
      /\ i = Len(history)
      /\ requests = i
      /\ Returned
      /\ Len(waits) = i - 1

\* C3: while every attempt so far has returned a 5xx status, the wait after
\* attempt index n is 2^n seconds; when the call has ended that way exactly
\* maxRetries requests were issued and no wait followed the last of them;
\* with the default maxRetries the waits are 1, 2, 4 and 8 seconds.
C3_ServerErrorBackoff ==
  (history # <<>> /\ \A i \in 1 .. Len(history) : Is5xx(history[i])) =>
    /\ \A n \in 0 .. Len(waits) - 1 : waits[n + 1] = (2 ^ n) * 1000
    /\ pc = "wait" => backoffTime = (2 ^ attempt) * 1000
    /\ pc = "wait" => attempt = Len(history) - 1 /\ attempt <= maxRetries - 2
    /\ Len(history) = maxRetries => pc = "done"
    /\ pc = "done" =>
         /\ requests = maxRetries
         /\ Len(history) = maxRetries
         /\ Len(waits) = maxRetries - 1
         /\ maxRetries = 5 => waits = <<1000, 2000, 4000, 8000>>

C3_Witness ==
  /\ pc = "done"
  /\ maxRetries = 5
  /\ requests = 5
  /\ Len(history) = 5
  /\ \A i \in 1 .. Len(history) : Is5xx(history[i])
  /\ waits = <<1000, 2000, 4000, 8000>>

\* C4: when the call ends on a 5xx response, its attempts are exhausted and
\* the error raised carries the status, status text and body of that last
\* response, whatever the earlier attempts returned.
C4_ErrorOfLastAttempt ==
  (pc = "done" /\ history # <<>> /\ Is5xx(Last(history))) =>
    /\ Len(history) = maxRetries
    /\ response.status = Last(history).status
    /\ outcome =
         [kind |-> "raised",
          error |-> [kind |-> "http", method |-> method, path |-> path,
                     status |-> response.status,
                     statusText |-> response.statusText,
                     text |-> IF response.readable THEN response.body ELSE ""]]

C4_Witness ==
  /\ Raised
  /\ Len(history) >= 2
  /\ history[1].kind = "response" /\ history[1].status = 500
  /\ Is5xx(Last(history)) /\ Last(history).status = 503
  /\ outcome.error.kind = "http"
  /\ outcome.error.status = 503
  /\ outcome.error.text = "Course not found"

\* C5: k responses 429 and then a 2xx response: the call returns the decoded
\* body of that response after exactly k + 1 requests, and raises nothing.
C5_RateLimitedThenSuccess ==
  \A k \in 0 .. Len(history) - 1 :
    ((\A i \in 1 .. k : Is429(history[i])) /\ Is2xx(history[k + 1])) =>
      /\ Len(history) = k + 1
      /\ requests = k + 1
      /\ Returned
      /\ IsJson(response.body) /\ outcome.value = JsonParse(response.body)

\* The Retry-After hint of a 429 response, in seconds: the header's value,
\* 1 when the header is absent.
HintSeconds(e) ==
  CASE e.retryAfter = Null -> 1
    [] e.retryAfter = "0"  -> 0
    [] e.retryAfter = "1"  -> 1
    [] e.retryAfter = "2"  -> 2

HasHintInSeconds(e) == e.retryAfter \in {Null, "0", "1", "2"}

\* C6: after a 429 response on attempt index a whose Retry-After hint is r
\* seconds (1 when absent), the wait started is (r + a) * 1000 ms, no request
\* is issued while it is pending, and once a later request has been issued
\* that wait has elapsed in full.
C6_RateLimitWait ==
  \A i \in 1 .. Len(history) :
    (Is429(history[i]) /\ HasHintInSeconds(history[i])) =>
      LET a == i - 1
          ms == (HintSeconds(history[i]) + a) * 1000
      IN /\ (i = Len(history) /\ pc = "wait") =>
              backoffTime = ms /\ requests = i /\ attempt = a
         /\ (i = Len(history) /\ pc # "fetch") =>
              pc = "wait" \/ (Len(waits) = i /\ waits[i] = ms)
         /\ requests > i => Len(waits) >= i /\ waits[i] = ms

C6_Witness ==
  /\ Len(history) = 2
  /\ Is429(history[1]) /\ history[1].retryAfter = Null
  /\ Is429(history[2]) /\ history[2].retryAfter = "2"
  /\ requests = 3
  /\ pc = "fetch"
  /\ waits = <<1000, 3000>>

\* Number of attempts so far that ended the way P says.
Count(P(_)) == Cardinality({i \in 1 .. Len(history) : P(history[i])})

IsRetryableFailure(e) == Is5xx(e) \/ IsException(e)

\* C7 as stated: 429 responses leave the attempt budget alone, so a call
\* that fails after nothing but 429s, 5xx responses and transport failures
\* has made maxRetries attempts that ended in 5xx or transport failure.
C7_RateLimitExempt ==
  (Raised /\ maxRetries >= 1
     /\ \A i \in 1 .. Len(history) :
          Is429(history[i]) \/ IsRetryableFailure(history[i])) =>
    Count(IsRetryableFailure) = maxRetries

\* C7, amended: a 429 response consumes one attempt like every other
\* outcome. The loop counter is the number of exchanges completed and waited
\* for, 429s included; k rate-limited responses leave at most
\* maxRetries - k attempts for 5xx responses and transport failures, and a
\* call that fails on nothing but those has made exactly maxRetries - k.
C7_RateLimitConsumesAttempt ==
  /\ pc = "loop" => attempt = Len(history)
  /\ pc \in {"fetch", "wait"} => attempt = requests - 1
  /\ maxRetries >= 0 =>
       Count(Is429) + Count(IsRetryableFailure) <= maxRetries
  /\ (Raised /\ maxRetries >= 1
        /\ \A i \in 1 .. Len(history) :
             Is429(history[i]) \/ IsRetryableFailure(history[i])) =>
       Count(IsRetryableFailure) = maxRetries - Count(Is429)

C7_Witness ==
  /\ Raised
  /\ maxRetries = 3
  /\ Count(Is429) = 2
  /\ Count(IsRetryableFailure) = 1
  /\ Is429(history[1])

\* C8 as stated: attempts exhausted with a final 429 raise the structured
\* error of the exhausted-server-error case, with status code 429.
C8_FinalRateLimitStructuredError ==
  (pc = "done" /\ history # <<>> /\ Is429(Last(history))) =>
    /\ outcome.kind = "raised"
    /\ outcome.error.kind = "http"
    /\ outcome.error.method = method /\ outcome.error.path = path
    /\ outcome.error.status = 429
    /\ outcome.error.statusText = "Too Many Requests"
    /\ outcome.error.text \in Bodies

\* C8, amended: attempts exhausted with a final 429 raise the generic
\* "failed after maxRetries retries" error, which carries the method, the
\* path and maxRetries and neither status code, status text nor body; a call
\* ends after a 429 only when its attempts are exhausted.
C8_FinalRateLimitGenericError ==
  (pc = "done" /\ history # <<>> /\ Is429(Last(history))) =>
    /\ Len(history) = maxRetries
    /\ attempt = maxRetries
    /\ outcome =
         [kind |-> "raised",
          error |-> [kind |-> "exhausted", method |-> method, path |-> path,
                     maxRetries |-> maxRetries]]

C8_Witness ==
  /\ Raised
  /\ maxRetries = 2
  /\ Len(history) = 2
  /\ Is5xx(history[1])
  /\ Is429(history[2])
  /\ outcome.error.kind = "exhausted"

\* C9: a transport-level exception on attempt index n: before the last
\* attempt the client waits 2^n seconds and the loop then issues attempt
\* n + 1; on the last attempt the call raises that very exception, and no
\* wait follows it.
C9_TransportFailure ==
  (history # <<>> /\ IsException(Last(history))) =>
    LET n == Len(history) - 1
    IN /\ pc \in {"wait", "loop", "fetch", "done"}
       /\ pc = "wait" =>
            /\ n < maxRetries - 1
            /\ attempt = n
            /\ backoffTime = (2 ^ n) * 1000
            /\ requests = n + 1
       /\ pc = "loop" =>
            /\ attempt = n + 1 /\ attempt < maxRetries
            /\ Len(waits) = n + 1 /\ waits[n + 1] = (2 ^ n) * 1000
       /\ pc = "fetch" =>
            /\ attempt = n + 1 /\ requests = n + 2
            /\ Len(waits) = n + 1 /\ waits[n + 1] = (2 ^ n) * 1000
       /\ pc = "done" =>
            /\ n = maxRetries - 1
            /\ caught \in TransportErrors
            /\ outcome = [kind |-> "raised", error |-> caught]
            /\ Len(waits) = n

C9_Witness ==
  /\ Raised
  /\ maxRetries = 3
  /\ Len(history) = 3
  /\ IsException(history[2])
  /\ IsException(history[3])
  /\ waits = <<1000, 2000>>
  /\ outcome.error = [kind |-> "transport", code |-> "ETIMEDOUT"]

\* The two terminal outcomes.
Succeeded == pc = "done" /\ outcome.kind = "returned"

FailedTerminal == pc = "done" /\ outcome.kind = "raised"

\* C10: a call starts in attempting(0); when every exchange and every wait
\* completes it reaches succeeded or failed-terminal, never both, and
\* nothing changes after that.
C10_Termination ==
  /\ (pc = "loop" /\ attempt = 0 /\ outcome = NoOutcome)
  /\ <>(Succeeded \/ FailedTerminal)
  /\ [](pc = "done" <=> outcome # NoOutcome)
  /\ [][pc = "done" => UNCHANGED vars]_vars

C10_Witness ==
  /\ FailedTerminal
  /\ maxRetries = 5
  /\ Len(history) = 5
  /\ Is429(history[1])
  /\ Is4xx(history[2])
  /\ IsException(history[3])
  /\ Is2xx(history[4])
  /\ Is5xx(history[5])

(***************************************************************************)
(* C11  During one call at most one HTTP exchange is in flight: a request  *)
(* is in flight exactly while the loop awaits fetch(), and the request of  *)
(* attempt n+1 is issued only when the exchanges of all earlier attempts   *)
(* have ended and the wait after each of them has elapsed.                 *)
(***************************************************************************)

\* Requests issued whose exchange has not ended yet.
InFlight == requests - Len(history)

C11_OneExchangeInFlight ==
  /\ InFlight \in {0, 1}
  /\ (InFlight = 1) <=> (pc = "fetch")
  /\ pc = "fetch" =>
       /\ attempt = Len(history)
       /\ Len(waits) = Len(history)
       /\ backoffTime = 0
  /\ pc = "wait" => Len(waits) = Len(history) - 1

\* The third request is in flight, after two exchanges and two waits.
C11_Witness ==
  /\ pc = "fetch"
  /\ requests = 3
  /\ Len(history) = 2
  /\ Len(waits) = 2

(***************************************************************************)
(* Properties of one tool call                                             *)
(***************************************************************************)

\* The call names a registered tool.
Registered == call.name \in ToolNames

\* The arguments satisfy the schema of the tool: an object whose course_id
\* is a positive number or a string of digits and whose other fields fit.
ValidArguments ==
  /\ call.arguments.t = "object"
  /\ \/ /\ call.arguments.course_id.t = "number"
        /\ call.arguments.course_id.n > 0
     \/ /\ call.arguments.course_id.t = "string"
        /\ call.arguments.course_id.s \in {"0", "1", "2"}
  /\ call.arguments.rest = "ok"

\* The call is under way or done, and its arguments fail the validation.
InvalidCall == callPc # "idle" /\ Registered /\ ~ValidArguments

\* The reply tells the caller of a validation error: as the dispatcher's
\* error or as the text of a result, it quotes the ZodError.
IsValidationFailure(r) ==
  \/ /\ r.kind = "error"
     /\ r.detail \in {Message(ZodError(i)) :
                        i \in {"Required", "course_id: Invalid input",
                               "Invalid input"}}
  \/ /\ r.kind = "result"
     /\ r.content.error \in {Message(ZodError(i)) :
                               i \in {"Required", "course_id: Invalid input",
                                      "Invalid input"}}

(***************************************************************************)
(* C12  For every registered tool: when the arguments of a call fail the   *)
(* tool's input validation, the call makes no API request, and so issues   *)
(* no HTTP request, and it ends in a validation failure.                   *)
(***************************************************************************)

C12_InvalidArgumentsRejected ==
  InvalidCall =>
    /\ clientCalls = <<>>
    /\ callPc \in {"lookup", "done"}
    /\ callPc = "done" => IsValidationFailure(reply)

(***************************************************************************)
(* C13  A call whose name matches no registered tool invokes no handler,   *)
(* makes no API request, and fails with the 'Unknown tool' error; that     *)
(* error is given for no call of a registered tool, whose handler          *)
(* exceptions are reported as 'Tool execution failed'.                     *)
(***************************************************************************)

C13_UnknownTool ==
  /\ callPc # "idle" /\ ~Registered =>
       /\ handlerRuns = <<>>
       /\ validated = NotParsed
       /\ clientCalls = <<>>
       /\ callPc \in {"lookup", "done"}
       /\ callPc = "done" => reply = ErrorReply("Unknown tool", call.name)
  /\ callPc = "done" /\ Registered /\ reply.kind = "error" =>
       reply.head \in {"Tool execution failed",
                       "Tool execution failed with unknown error"}

\* The call of the unregistered delete_course has been answered.
C13_Witness ==
  /\ callPc = "done"
  /\ call.name = "delete_course"
  /\ reply.kind = "error"
  /\ reply.head = "Unknown tool"
  /\ handlerRuns = <<>>

(***************************************************************************)
(* C14  Every failure of a call of a registered tool (a validation error,  *)
(* or an API request that ended in an error) reaches the caller in one     *)
(* shape, the dispatcher's 'Tool execution failed' error, whatever the     *)
(* tool, and never as a result.                                            *)
(***************************************************************************)

\* The error the call failed with: of the parse, or of its last API request.
CallError ==
  IF validated # NotParsed /\ ~validated.ok THEN validated.error
  ELSE IF clientCalls # <<>> /\ Last(clientCalls).state = "raised"
    THEN Last(clientCalls).error
  ELSE NoError

Failed == callPc = "done" /\ Registered /\ CallError # NoError

C14_UniformFailureShape ==
  Failed => reply.kind = "error" /\ reply.head = "Tool execution failed"

(***************************************************************************)
(* C14, amended  A failure of a call of a registered tool reaches the      *)
(* caller in one of two shapes, by the tool. create_assignment and         *)
(* attach_rubric_to_assignment hand back a result whose text block opens   *)
(* with 'Failed to ...' and quotes the error message; called without an    *)
(* arguments object they end in the dispatcher's 'Tool execution failed'   *)
(* error with the message of a TypeError. Every other tool ends in the     *)
(* dispatcher's error 'Tool execution failed: ' followed by the message.   *)
(***************************************************************************)

CatchesItsErrors ==
  call.name \in {"create_assignment", "attach_rubric_to_assignment"}

C14_FailureShapeByTool ==
  Failed =>
    IF CatchesItsErrors /\ call.arguments # Undefined
      THEN /\ reply.kind = "result"
           /\ reply.content.type = "text"
           /\ reply.content.head \in {"Failed to create assignment",
                                      "Failed to create/attach rubric"}
           /\ reply.content.error = Message(CallError)
    ELSE IF CatchesItsErrors
      THEN reply = ErrorReply("Tool execution failed",
                              "Cannot read properties of undefined")
    ELSE reply = ErrorReply("Tool execution failed", Message(CallError))

\* create_assignment's request ran out of attempts and the caller got a
\* result.
C14_Witness ==
  /\ Failed
  /\ CallError.kind = "exhausted"
  /\ call.name = "create_assignment"
  /\ reply.kind = "result"
  /\ reply.content.head = "Failed to create assignment"

(***************************************************************************)
(* C15  For a call that names a registered tool the dispatcher invokes     *)
(* the handler of that tool, and of no other, exactly once: from the       *)
(* dispatch on, while the handler awaits and after it has returned or      *)
(* thrown, the handlers invoked for the call are that one handler, once.   *)
(***************************************************************************)

C15_HandlerInvokedOnce ==
  /\ callPc = "lookup" => handlerRuns = <<>>
  /\ Registered /\ callPc \in {"await", "done"} =>
       handlerRuns = <<call.name>>

\* The second call of the run: the handler of create_module threw after
\* its request failed, and the dispatcher answered.
C15_Witness ==
  /\ callPc = "done"
  /\ served = 2
  /\ call.name = "create_module"
  /\ handlerRuns = <<"create_module">>
  /\ clientCalls # <<>>
  /\ Last(clientCalls).state = "raised"
  /\ reply.kind = "error"

(***************************************************************************)
(* C16  A handler is invoked only with arguments that satisfy the tool's   *)
(* schema: arguments that violate it never reach a handler.                *)
(***************************************************************************)

C16_ValidatedBeforeInvocation == handlerRuns # <<>> => ValidArguments

(***************************************************************************)
(* C16, amended  The dispatcher hands the arguments to the handler as they *)
(* came, unchecked; the handler parses them against the tool's schema as   *)
(* its first step. Arguments that violate the schema reach the handler     *)
(* but never the API client: an API request is made only for arguments     *)
(* that passed the parse, and its path carries the parsed course id.       *)
(***************************************************************************)

\* The course id as a number: of a number itself, of a string of digits
\* its value.
CourseNumber(x) ==
  IF x.t = "number" THEN x.n
  ELSE CASE x.s = "0" -> 0 [] x.s = "1" -> 1 [] x.s = "2" -> 2

C16_ValidatedBeforeRequest ==
  /\ callPc # "idle" /\ Registered /\ callPc # "lookup" =>
       /\ handlerRuns = <<call.name>>
       /\ validated.ok <=> ValidArguments
  /\ clientCalls # <<>> =>
       /\ ValidArguments
       /\ validated.ok
       /\ validated.course_id = CourseNumber(call.arguments.course_id)
       /\ \A i \in 1 .. Len(clientCalls) :
            clientCalls[i].path \in
              { "/api/v1/courses/"
                  \o ToString(CourseNumber(call.arguments.course_id))
                  \o rest :
                rest \in {"/assignments", "/rubrics", "/rubric_associations",
                          "/modules", "/modules/:module_id/items", "/pages",
                          "/quizzes", "/quizzes/:quiz_id/questions",
                          "/quizzes/1/questions"} }

\* The handler of create_module was invoked with the course_id 'abc' and
\* threw on its parse; no API request was made.
C16_Witness ==
  /\ callPc = "done"
  /\ call.name = "create_module"
  /\ call.arguments # Undefined
  /\ call.arguments.course_id = Str("abc")
  /\ handlerRuns = <<"create_module">>
  /\ ~validated.ok
  /\ clientCalls = <<>>

(***************************************************************************)
(* Properties of the process                                               *)
(***************************************************************************)

\* The base URL is absent or empty, or both credentials are.
MissingConfiguration ==
  \/ env.CANVAS_BASE_URL \in {Null, ""}
  \/ env.CANVAS_TOKEN \in {Null, ""} /\ env.CANVAS_API_TOKEN \in {Null, ""}

(***************************************************************************)
(* C17  When the base URL or the credential is missing at startup, the     *)
(* process exits with status 1 at its first step: no client is ever        *)
(* constructed, the server never connects, no connection test is queued    *)
(* or run, and no tool call is taken up or answered.                       *)
(***************************************************************************)

C17_MissingConfigurationExits ==
  MissingConfiguration =>
    /\ main \in {"validate", "exited"}
    /\ main = "exited" <=> exit = Exited(1)
    /\ main = "validate" <=> exit = NotExited
    /\ client = NoClient
    /\ ~connected
    /\ NoProbe
    /\ NoCalls

\* The base URL is set and neither credential is: the process has exited
\* with status 1.
C17_Witness ==
  /\ env.CANVAS_BASE_URL = "https://canvas.example/"
  /\ env.CANVAS_TOKEN = Null
  /\ env.CANVAS_API_TOKEN = Null
  /\ exit = Exited(1)

(***************************************************************************)
(* C18  testConnection never raises: however its GET of                    *)
(* /api/v1/users/self ended, its promise resolves; with                    *)
(* {success: true, user} exactly when the request returned, the user       *)
(* being the decoded body, and with {success: false, error} otherwise,     *)
(* the error being the message of the error the request raised. The ways   *)
(* the request can end are those the tool handlers and the entry point     *)
(* are followed with: the decoded body, or the error of a failed response, *)
(* of a failed exchange, of an undecodable body or of the loop's end.      *)
(***************************************************************************)

C18_TestConnectionNeverRaises ==
  /\ pc = "done" => outcome \in ClientOutcomes("GET", "/api/v1/users/self")
  /\ probeResult.state \in {"none", "resolved"}
  /\ probe = "running" <=> probeResult = NoResult
  /\ probe = "settled" =>
       /\ pc = "done"
       /\ path = "/api/v1/users/self"
       /\ probeResult.state = "resolved"
       /\ probeResult.success <=> outcome.kind = "returned"
       /\ outcome.kind = "returned" =>
            probeResult = [state |-> "resolved", success |-> TRUE,
                           user |-> outcome.value]
       /\ outcome.kind = "raised" =>
            probeResult = [state |-> "resolved", success |-> FALSE,
                           error |-> Message(outcome.error)]

\* Five rate-limited attempts exhausted the request: testConnection
\* resolved with success false and the message of the final error.
C18_Witness ==
  /\ probe = "settled"
  /\ outcome.kind = "raised"
  /\ outcome.error.kind = "exhausted"
  /\ probeResult.state = "resolved"
  /\ ~probeResult.success
  /\ probeResult.error =
       "Canvas GET /api/v1/users/self failed after 5 retries"

(***************************************************************************)
(* C19  A failed connection test never ends the process. The test starts   *)
(* only once the server is connected and the module's script has run to    *)
(* its end; the step in which it fails leaves the process running and      *)
(* connected; the only exit with a non-zero status is that of a missing    *)
(* configuration, before any test; and after a failed test the server      *)
(* still takes up, dispatches and completes tool calls.                    *)
(***************************************************************************)

\* The connection test has ended in success: false or in an exception.
ProbeFailed ==
  /\ probe = "reported"
  /\ Last(console) \in
       {"Canvas connection failed (continuing; tools will error)",
        "Canvas connection test exception (continuing)"}

C19_ProbeFailureDoesNotTerminate ==
  /\ [](/\ probe \in {"running", "reported"} =>
            connected /\ main \in {"idle", "exited"}
        /\ exit = Exited(1) => MissingConfiguration /\ probe = "none"
        /\ ProbeFailed /\ Running =>
            /\ callPc \in {"idle", "done"} /\ served < MaxCalls =>
                 ENABLED CallArrives
            /\ callPc = "lookup" => ENABLED Dispatch
            /\ callPc = "await" => ENABLED RequestSettles)
  /\ [][probe = "running" /\ probe' = "reported" =>
          /\ exit' = exit
          /\ main' = main
          /\ connected'
          /\ UNCHANGED callVars]_vars

\* The connection test has failed, the process runs on, and a call of
\* list_assignments is at hand that the dispatcher has yet to dispatch.
C19_Witness ==
  /\ ProbeFailed
  /\ Running
  /\ connected
  /\ callPc = "lookup"
  /\ call.name = "list_assignments"
  /\ ENABLED Dispatch

(***************************************************************************)
(* C20  In a call of attach_rubric_to_assignment or create_quiz the API    *)
(* requests are made one after another: at most one is in flight at any    *)
(* time, a second one exists only when the first has returned a value,     *)
(* and after a first request that failed no second one is made. No         *)
(* handler makes more than two requests, and only these two tools make a   *)
(* second.                                                                 *)
(***************************************************************************)

\* The API requests of the call that are in flight.
RequestsInFlight ==
  { i \in 1 .. Len(clientCalls) : clientCalls[i].state = "inflight" }

C20_RequestsInSequence ==
  /\ Cardinality(RequestsInFlight) <= 1
  /\ RequestsInFlight # {} <=> callPc = "await"
  /\ RequestsInFlight # {} => RequestsInFlight = {Len(clientCalls)}
  /\ Len(clientCalls) <= 2
  /\ Len(clientCalls) = 2 =>
       /\ call.name \in {"attach_rubric_to_assignment", "create_quiz"}
       /\ clientCalls[1].state = "returned"
  /\ clientCalls # <<>> /\ clientCalls[1].state = "raised" =>
       /\ Len(clientCalls) = 1
       /\ callPc = "done"

\* The first request of create_quiz has returned the quiz and the second,
\* for its first question, is in flight.
C20_Witness ==
  /\ call.name = "create_quiz"
  /\ callPc = "await"
  /\ Len(clientCalls) = 2
  /\ clientCalls[1].state = "returned"
  /\ clientCalls[1].path = "/api/v1/courses/7/quizzes"
  /\ clientCalls[2].state = "inflight"
  /\ clientCalls[2].path = "/api/v1/courses/7/quizzes/1/questions"

(***************************************************************************)
(* Properties of calls that overlap                                        *)
(***************************************************************************)

(***************************************************************************)
(* C21  The dispatcher services at most one tool call at a time: a call    *)
(* taken up is answered before the next one is taken up, also while it is  *)
(* suspended in an API request.                                            *)
(***************************************************************************)

C21_OneCallAtATime == InProgress <= 1

\* The contexts of the calls in progress whose handler has been invoked.
HandlerContexts ==
  BagToSet(suspended)
    \cup (IF callPc \in {"await", "done"} /\ Registered THEN {Context} ELSE {})

\* The course id of the context's arguments, as it stands in a path.
CoursePrefix(c) ==
  "/api/v1/courses/" \o ToString(CourseNumber(c.call.arguments.course_id))

\* The API requests of the context are those of its own call: made by the
\* handler of the tool it names, for arguments that passed its parse, to
\* paths of its own course.
OwnRequests(c) ==
  /\ c.handlerRuns = <<c.call.name>>
  /\ c.clientCalls # <<>> =>
       /\ c.validated.ok
       /\ c.validated = Parse(c.call.name, c.call.arguments)
       /\ c.clientCalls[1].path = FirstRequest(c.call.name, c.validated).path
       /\ \A k \in 1 .. Len(c.clientCalls) :
            \E rest \in {"/assignments", "/rubrics", "/rubric_associations",
                          "/modules", "/modules/:module_id/items", "/pages",
                          "/quizzes", "/quizzes/:quiz_id/questions",
                          "/quizzes/1/questions"} :
              c.clientCalls[k].path = CoursePrefix(c) \o rest

\* The context is that of a handler at an await: its last API request is
\* in flight and every earlier one has returned.
Awaiting(c) ==
  /\ c.clientCalls # <<>>
  /\ Last(c.clientCalls).state = "inflight"
  /\ \A k \in 1 .. (Len(c.clientCalls) - 1) :
       c.clientCalls[k].state = "returned"

(***************************************************************************)
(* C21, amended  The dispatcher has no queue: it takes a call up when it   *)
(* arrives, so several calls can be in progress at once. Their handling    *)
(* interleaves at the awaits only: every call that is not the one being    *)
(* run is suspended in an API request of its handler, never in the         *)
(* dispatcher's lookup or the handler's validation. Each call goes on with *)
(* its own arguments and its own requests, and every call taken up is      *)
(* counted once.                                                           *)
(***************************************************************************)

C21_CallsInterleaveAtAwaits ==
  /\ served + InProgress <= MaxCalls
  /\ \A c \in BagToSet(suspended) : Awaiting(c)
  /\ \A c \in HandlerContexts : OwnRequests(c)
  /\ callPc = "await" => Awaiting(Context)

\* create_module for course 7 is suspended in its request while the
\* request of list_pages for course 2, taken up after it, is in flight too.
C21_Witness ==
  /\ BagCardinality(suspended) = 1
  /\ \E c \in BagToSet(suspended) :
       /\ c.call.name = "create_module"
       /\ c.clientCalls[1].path = "/api/v1/courses/7/modules"
       /\ c.clientCalls[1].state = "inflight"
  /\ callPc = "await"
  /\ call.name = "list_pages"
  /\ clientCalls[1].path = "/api/v1/courses/2/pages"
  /\ clientCalls[1].state = "inflight"

(***************************************************************************)
(* C22  The same GET descriptor issued twice in succession, the remote     *)
(* service answering the requests of the second call as it answered those  *)
(* of the first: the second call ends as the first did, with the same      *)
(* value or error, after the same number of HTTP requests and the same     *)
(* waits; while it runs it has issued no request and started no wait that  *)
(* the first call did not, and it never issues a request the first call    *)
(* had no answer to.                                                       *)
(***************************************************************************)

\* s is an initial part of t.
IsPrefix(s, t) ==
  /\ Len(s) <= Len(t)
  /\ \A i \in 1 .. Len(s) : s[i] = t[i]

C22_RepeatedCallSameOutcome ==
  firstCall.seen =>
    /\ method = "GET"
    /\ requests <= firstCall.requests
    /\ IsPrefix(log, firstCall.log)
    /\ IsPrefix(waits, firstCall.waits)
    /\ pc = "fetch" => Len(log) < Len(firstCall.log)
    /\ pc = "wait" =>
         /\ Len(waits) < Len(firstCall.waits)
         /\ backoffTime = firstCall.waits[Len(waits) + 1]
    /\ pc = "loop" /\ attempt < maxRetries => requests < firstCall.requests
    /\ pc = "done" =>
         /\ outcome = firstCall.outcome
         /\ requests = firstCall.requests
         /\ waits = firstCall.waits
         /\ log = firstCall.log

\* Both calls were rate-limited once, then got a server error, then a body
\* that decodes: each returned it after three requests and waits of 2 and
\* 2 seconds.
C22_Witness ==
  /\ firstCall.seen
  /\ pc = "done"
  /\ maxRetries = DefaultMaxRetries
  /\ requests = 3
  /\ firstCall.requests = 3
  /\ Is429(history[1]) /\ Is5xx(history[2]) /\ Is2xx(history[3])
  /\ waits = <<2000, 2000>>
  /\ firstCall.waits = <<2000, 2000>>
  /\ outcome = [kind |-> "returned", value |-> [id |-> 1]]
  /\ firstCall.outcome = outcome

(***************************************************************************)
(* C23  Once the client is constructed its base URL does not end in a      *)
(* slash: it is the configured URL without the slashes that ended it. Its  *)
(* token is the configured credential. From then on no step of the         *)
(* process, be it a request of a tool, a retry or the connection test,     *)
(* changes either.                                                         *)
(***************************************************************************)

C23_ClientConfigurationFixed ==
  /\ [](client # NoClient =>
          /\ ~EndsWithSlash(client.baseUrl)
          /\ \E slashes \in {"", "/", "//"} :
               env.CANVAS_BASE_URL = client.baseUrl \o slashes
          /\ client.token \in {env.CANVAS_TOKEN, env.CANVAS_API_TOKEN}
          /\ client.token \notin {Null, ""})
  /\ [][client # NoClient => client' = client]_vars

\* The client was constructed for a URL that ended in two slashes; the
\* connection test has reported and a tool's request has failed since.
C23_Witness ==
  /\ env.CANVAS_BASE_URL = "https://canvas.example//"
  /\ client.baseUrl = "https://canvas.example"
  /\ client.token = "token-b"
  /\ probe = "reported"
  /\ callPc = "done"
  /\ clientCalls # <<>>
  /\ Last(clientCalls).state = "raised"

(***************************************************************************)
(* C24  A call that fails, by an unknown tool name, a validation error or  *)
(* a failed API request, leaves no trace. The step that answers it changes *)
(* neither the client nor anything else of the process; the registry is    *)
(* the same list of twelve tools before and after; the server is then      *)
(* ready for the next call, and the handling of every call starts from the *)
(* same blank state whatever the call before it came to.                   *)
(***************************************************************************)

\* The call has been answered and it failed.
CallFailed ==
  /\ callPc = "done"
  /\ \/ ~Registered
     \/ CallError # NoError

C24_FailedCallLeavesNoTrace ==
  /\ [](/\ Len(tools) = 12
        /\ Cardinality(ToolNames) = 12
        /\ callPc = "lookup" =>
             /\ handlerRuns = <<>>
             /\ validated = NotParsed
             /\ clientCalls = <<>>
             /\ reply = NoReply
        /\ CallFailed /\ Running /\ served < MaxCalls =>
             /\ main = "idle"
             /\ connected
             /\ client = NewCanvasClient(env.CANVAS_BASE_URL,
                                         JsOr(env.CANVAS_TOKEN,
                                              env.CANVAS_API_TOKEN))
             /\ ENABLED CallArrives)
  /\ [][callPc # "done" /\ CallFailed' =>
          /\ served' = served + 1
          /\ UNCHANGED <<processVars, probeVars, suspended>>]_vars

\* The first call named no registered tool and was answered with an error;
\* the server is ready for the next call.
C24_Witness ==
  /\ served = 1
  /\ CallFailed
  /\ call.name = "delete_course"
  /\ reply.kind = "error"
  /\ client.baseUrl = "https://canvas.example"
  /\ ENABLED CallArrives

(***************************************************************************)
(* C25  The 'failed after N retries' error is the fallback of a loop that  *)
(* ended without a raise or a return. A call ends in it exactly when       *)
(* maxRetries <= 0, and then without any request, or when the last         *)
(* permitted attempt received 429; a call whose last attempt ended in 5xx, *)
(* in a 4xx other than 429, in a failed exchange or in 2xx never does.     *)
(***************************************************************************)

\* The call ended in the error of canvas.ts:98.
RaisedGeneric ==
  /\ pc = "done"
  /\ outcome.kind = "raised"
  /\ outcome.error.kind = "exhausted"

C25_GenericErrorOnlyAsFallback ==
  /\ RaisedGeneric <=>
       /\ pc = "done"
       /\ \/ maxRetries <= 0
          \/ Len(history) = maxRetries /\ Is429(Last(history))
  /\ RaisedGeneric =>
       /\ outcome.error = [kind |-> "exhausted", method |-> method,
                           path |-> path, maxRetries |-> maxRetries]
       /\ maxRetries <= 0 => requests = 0 /\ history = <<>> /\ waits = <<>>
       /\ maxRetries > 0 => requests = maxRetries /\ Len(waits) = maxRetries
  /\ (pc = "done" /\ history # <<>> /\ ~Is429(Last(history))) =>
       /\ ~RaisedGeneric
       /\ \/ Is5xx(Last(history)) \/ Is4xx(Last(history))
          \/ IsException(Last(history)) \/ Is2xx(Last(history))

\* The third and last attempt was rate-limited, after a rate limit and a
\* failed exchange: the call waited and then raised the generic error.
C25_Witness ==
  /\ RaisedGeneric
  /\ maxRetries = 3
  /\ Len(history) = 3
  /\ Is429(history[1])
  /\ IsException(history[2])
  /\ Is429(history[3])
  /\ Len(waits) = 3

(***************************************************************************)
(* C26  Whatever the exchanges deliver, one call issues at most maxRetries *)
(* HTTP requests, and none when maxRetries <= 0. Every exchange counts     *)
(* alike against that budget, be its end a 429, a 5xx, a 4xx, a 2xx or a   *)
(* failure of the exchange: each request issued is one turn of the loop,   *)
(* and the counter is back at the loop's condition only one higher.        *)
(***************************************************************************)

C26_AtMostMaxRetriesRequests ==
  /\ requests <= (IF maxRetries > 0 THEN maxRetries ELSE 0)
  /\ maxRetries <= 0 => requests = 0 /\ history = <<>>
  /\ Len(history) =
       Count(Is429) + Count(Is5xx) + Count(Is4xx) + Count(IsException)
         + Count(Is2xx)
  /\ requests = Len(history) + (IF pc = "fetch" THEN 1 ELSE 0)
  /\ pc = "loop" => attempt = requests
  /\ pc \in {"fetch", "wait"} => attempt = requests - 1

\* Three attempts were permitted: a 404, a 500 and a failed exchange used
\* them up, one request each.
C26_Witness ==
  /\ pc = "done"
  /\ maxRetries = 3
  /\ requests = 3
  /\ Len(history) = 3
  /\ Is4xx(history[1])
  /\ Is5xx(history[2])
  /\ IsException(history[3])
  /\ outcome.kind = "raised"

(***************************************************************************)
(* C27  A 2xx response whose body is not JSON is handled as a failed       *)
(* exchange is. On attempt index n with attempts remaining the client      *)
(* waits 2^n seconds and issues the request again, although the server     *)
(* answered with success; on the last attempt the call raises the decode   *)
(* error, and no wait follows.                                             *)
(***************************************************************************)

\* The exchange just ended in a 2xx response that does not decode.
UndecodableSuccess ==
  /\ history # <<>>
  /\ Is2xx(Last(history))
  /\ response # NoResponse
  /\ ~IsJson(response.body)

FinalAttemptRateLimited ==
  /\ history # <<>>
  /\ Len(history) = maxRetries
  /\ Is429(Last(history))

\* The wait the 429 of the last attempt calls for, in milliseconds.
FinalRateLimitWait ==
  (HintSeconds(Last(history)) + (maxRetries - 1)) * 1000

C28_FinalRateLimitStillWaits ==
  FinalAttemptRateLimited =>
    /\ pc \in {"wait", "loop", "done"}
    /\ requests = maxRetries
    /\ pc = "wait" =>
         /\ outcome = NoOutcome
         /\ attempt = maxRetries - 1
         /\ Len(waits) = maxRetries - 1
         /\ HasHintInSeconds(Last(history)) =>
              backoffTime = FinalRateLimitWait
    /\ pc \in {"loop", "done"} =>
         /\ attempt = maxRetries
         /\ Len(waits) = maxRetries
         /\ HasHintInSeconds(Last(history)) =>
              Last(waits) = FinalRateLimitWait
    /\ pc = "loop" => outcome = NoOutcome
    /\ pc = "done" =>
         outcome = [kind |-> "raised",
                    error |-> [kind |-> "exhausted", method |-> method,
                               path |-> path, maxRetries |-> maxRetries]]

\* Two attempts were permitted: a 500, then a 429 with Retry-After: 2. The
\* client waited three seconds after it and then raised.
C28_Witness ==
  /\ pc = "done"
  /\ maxRetries = 2
  /\ Is5xx(history[1])
  /\ Is429(history[2])
  /\ history[2].retryAfter = "2"
  /\ requests = 2
  /\ waits = <<1000, 3000>>
  /\ outcome.kind = "raised"

(***************************************************************************)
(* Properties of the handlers that make two requests                       *)
(***************************************************************************)

\* The rubric was created and the request that attaches it has failed.
AssociationFailed ==
  /\ call.name = "attach_rubric_to_assignment"
  /\ Len(clientCalls) >= 2
  /\ clientCalls[1].state = "returned"
  /\ clientCalls[2].state = "raised"

(***************************************************************************)
(* C29  attach_rubric_to_assignment, the rubric created and the request    *)
(* to attach it failed: the handler makes no further request, so nothing   *)
(* removes the rubric, and the caller gets a result whose text block tells *)
(* of the failure and quotes the error, not an error of the dispatcher.    *)
(***************************************************************************)

C29_NoCompensationAfterFailedAttach ==
  /\ AssociationFailed =>
       /\ callPc = "done"
       /\ Len(clientCalls) = 2
       /\ clientCalls[1].method = "POST"
       /\ clientCalls[1].path =
            "/api/v1/courses/"
              \o ToString(CourseNumber(call.arguments.course_id))
              \o "/rubrics"
       /\ clientCalls[2].method = "POST"
       /\ clientCalls[2].path =
            "/api/v1/courses/"
              \o ToString(CourseNumber(call.arguments.course_id))
              \o "/rubric_associations"
       /\ reply.kind = "result"
       /\ reply.content =
            [type |-> "text", head |-> "Failed to create/attach rubric",
             error |-> Message(clientCalls[2].error)]
  /\ \A i \in 1 .. Len(clientCalls) : clientCalls[i].method \in {"GET", "POST"}

\* The rubric of course 2 was created; attaching it got a 404, and the
\* caller was handed a result that says so.
C29_Witness ==
  /\ AssociationFailed
  /\ callPc = "done"
  /\ call.arguments.course_id = Str("2")
  /\ clientCalls[2].error.kind = "http"
  /\ clientCalls[2].error.status = 404
  /\ reply.kind = "result"
  /\ reply.content.head = "Failed to create/attach rubric"

(***************************************************************************)
(* C30  create_quiz makes the request that creates the first question      *)
(* exactly when the request that creates the quiz has returned and the     *)
(* arguments carry a question that is not empty and two answers or more.   *)
(* Otherwise a call that is answered has made one API request, or none     *)
(* when its arguments failed the validation.                               *)
(***************************************************************************)

\* The arguments ask for a first question.
AsksForQuestion ==
  /\ call.arguments.question.t = "string"
  /\ call.arguments.question.s # ""
  /\ call.arguments.answers.t = "array"
  /\ Len(call.arguments.answers.items) >= 2

====
